---- MODULE Spec2Model ----
(***************************************************************************)
(* homeAImatch backend: the match pipeline (POST /api/match) and the       *)
(* scoring service.                                                        *)
(*                                                                         *)
(* Two copies of the API server exist in the repository: src/api/server.js *)
(* and the server code that follows the scoring service in                 *)
(* src/services/ai-scoring.js (line 234 on).  They differ in getCandidates *)
(* and in the failure response; `variant` says which one is deployed:      *)
(*   "api"      src/src/api/server.js                                      *)
(*   "bundled"  src/src/services/ai-scoring.js, lines 234..1210            *)
(*                                                                         *)
(* Text is a sequence of tokens.  A place name is spelled letter by        *)
(* letter, so that case folding and substring search are computed; a label *)
(* is cut at every blank and every dash, so that the budget normalisation  *)
(* (blank* dash blank* becomes "-") is computed.                           *)
(*                                                                         *)
(* A JavaScript value is a record tagged by t: "undefined", "null",        *)
(* "number" (field n), "string" (field s), "object" (a Score Result shaped *)
(* object, any field of which may be undefined).                           *)
(***************************************************************************)
EXTENDS Integers, Sequences, FiniteSets, TLC

\* ------------------------------------------------------------------------
\* Sequences

Min(a, b) == IF a <= b THEN a ELSE b

Max(a, b) == IF a >= b THEN a ELSE b

\* slice(0) in place of slice(0, n): nothing cut off
Take_All(s, n) == s

\* Array.prototype.slice(0, n)
Take(s, n) == SubSeq(s, 1, Min(n, Len(s)))

\* Array.prototype.slice(from, from + n), from counted from 0
Slice(s, from, n) == SubSeq(s, from + 1, Min(from + n, Len(s)))

Range(s) == {s[k] : k \in DOMAIN s}

RECURSIVE FilterUpTo(_, _, _)
\* the rows among the first n of s whose index is in keep, in the order of s
FilterUpTo(s, keep, n) ==
  IF n = 0 THEN <<>>
  ELSE IF n \in keep THEN Append(FilterUpTo(s, keep, n - 1), s[n])
  ELSE FilterUpTo(s, keep, n - 1)

\* the rows of s whose index is in keep, in the order of s
Filter(s, keep) == FilterUpTo(s, keep, Len(s))

\* ------------------------------------------------------------------------
\* JavaScript values

JUndef == [t |-> "undefined"]

JNull == [t |-> "null"]

JNum(k) == [t |-> "number", n |-> k]

JStr(x) == [t |-> "string", s |-> x]

JNaN == [t |-> "nan"]

JBool(x) == [t |-> "boolean", b |-> x]

JArr(x) == [t |-> "array", items |-> x]

\* ToBoolean: undefined, null, false, 0, NaN and "" are falsy
Truthy(v) ==
  CASE v.t = "undefined" -> FALSE
    [] v.t = "null" -> FALSE
    [] v.t = "nan" -> FALSE
    [] v.t = "boolean" -> v.b
    [] v.t = "number" -> v.n # 0
    [] v.t = "string" -> v.s # <<>>
    [] OTHER -> TRUE

\* a || b
Or(a, b) == IF Truthy(a) THEN a ELSE b

\* v?.score : undefined for null and undefined, and for a value that has no
\* such property (a number, a string)
OptScore(v) == IF v.t = "object" THEN v.score ELSE JUndef

\* ToNumber, for the operands of a subtraction or a comparison; the strings of
\* the model are words, not numerals, so a string gives NaN
ToNumber(v) ==
  CASE v.t = "number" -> v
    [] v.t = "null" -> JNum(0)
    [] v.t = "boolean" -> JNum(IF v.b THEN 1 ELSE 0)
    [] OTHER -> JNaN

\* a - b
Minus(a, b) ==
  LET x == ToNumber(a)
      y == ToNumber(b)
  IN IF x.t = "number" /\ y.t = "number" THEN JNum(x.n - y.n) ELSE JNaN

\* a <= b on numbers after ToNumber; false when either side is NaN
LessEq(a, b) ==
  LET x == ToNumber(a)
      y == ToNumber(b)
  IN x.t = "number" /\ y.t = "number" /\ x.n <= y.n

\* a >= b
GreaterEq(a, b) == LessEq(b, a)

\* ------------------------------------------------------------------------
\* Text

UpperLetters ==
  <<"A", "B", "C", "D", "E", "F", "G", "H", "I", "J", "K", "L", "M",
    "N", "O", "P", "Q", "R", "S", "T", "U", "V", "W", "X", "Y", "Z">>

LowerLetters ==
  <<"a", "b", "c", "d", "e", "f", "g", "h", "i", "j", "k", "l", "m",
    "n", "o", "p", "q", "r", "s", "t", "u", "v", "w", "x", "y", "z">>

LowerChar(c) ==
  IF \E k \in DOMAIN UpperLetters : UpperLetters[k] = c
  THEN LowerLetters[CHOOSE k \in DOMAIN UpperLetters : UpperLetters[k] = c]
  ELSE c

UpperChar(c) ==
  IF \E k \in DOMAIN LowerLetters : LowerLetters[k] = c
  THEN UpperLetters[CHOOSE k \in DOMAIN LowerLetters : LowerLetters[k] = c]
  ELSE c

ToLowerCase(x) == [k \in DOMAIN x |-> LowerChar(x[k])]

\* String.prototype.toUpperCase
ToUpperCase(x) == [k \in DOMAIN x |-> UpperChar(x[k])]

\* column ILIKE pattern, the pattern holding no wildcard: equality up to case;
\* a null column matches nothing
ILike(col, pat) == col.t = "string" /\ ToLowerCase(col.s) = ToLowerCase(pat)

\* column ILIKE %pat% : pat occurs in the column, up to case
ILikeContains(col, pat) ==
  /\ col.t = "string"
  /\ \E from \in 0..(Len(col.s) - Len(pat)) :
       ToLowerCase(SubSeq(col.s, from + 1, from + Len(pat))) = ToLowerCase(pat)

IsBlank(c) == c = " "

\* the class of en dash, em dash and hyphen of the budget normalisation
IsDash(c) == c \in {"ENDASH", "EMDASH", "-"}

RECURSIVE SkipBlanks(_, _)
\* the first position at or after k of x that holds no blank
SkipBlanks(x, k) == IF k <= Len(x) /\ IsBlank(x[k]) THEN SkipBlanks(x, k + 1) ELSE k

\* x.replace(/\s*[dash]\s*/g, '-') from position k on
ReplaceDashes(x, k) ==
  LET from[i \in 1..(Len(x) + 1)] ==
        IF i > Len(x) THEN <<>>
        ELSE LET d == SkipBlanks(x, i)
             IN IF d <= Len(x) /\ IsDash(x[d])
                THEN <<"-">> \o from[SkipBlanks(x, d + 1)]
                ELSE <<x[i]>> \o from[i + 1]
  IN from[k]

\* ------------------------------------------------------------------------
\* Program constants

\* const BATCH_SIZE = 5
BATCH_SIZE == 5

\* results.slice(0, 5)
TOP_N == 5

\* query.limit(50)
QUERY_LIMIT == 50

\* the open end of a price band, [0, 99999999]
PRICE_OPEN == 99999999

\* budgetMap[...] || 500000 of the rule-based scorer
DEFAULT_MAX_BUDGET == 500000

\* ------------------------------------------------------------------------
\* The listing store

Leeds == <<"L", "e", "e", "d", "s">>

York == <<"Y", "o", "r", "k">>

Horsforth == <<"H", "o", "r", "s", "f", "o", "r", "t", "h">>

UK == <<"U", "K">>

Listing(id, status, price, beds, city, region, commute, walk, pet, features, schools) ==
  [id |-> id, listing_status |-> status, price |-> price, beds |-> JNum(beds),
   city |-> JStr(city), region |-> region, county |-> JNull, country |-> JStr(UK),
   commute_city_center |-> commute, walkability |-> walk, pet_friendly |-> pet,
   features |-> features, schools_quality |-> schools, agents |-> JNull]

\* the rows of table properties, in the order the store returns them
Properties ==
  << Listing(1, "active", JNum(350000), 3, Leeds, JNull, JNum(12), JNum(9),
             JBool(TRUE), JArr(<<"garden", "garage">>), JStr(<<"excellent">>)),
     Listing(2, "active", JNum(600000), 4, Leeds, JNull, JNum(30), JNum(6),
             JBool(FALSE), JArr(<<"garden">>), JStr(<<"good">>)),
     Listing(3, "active", JNum(430000), 2, Horsforth, JStr(Leeds), JNum(20), JNum(4),
             JNull, JNull, JNull),
     Listing(4, "sold", JNum(300000), 2, Leeds, JNull, JNum(0), JNum(8),
             JBool(TRUE), JArr(<<>>), JStr(<<"good">>)),
     Listing(5, "active", JNum(250000), 1, York, JNull, JNum(45), JNull,
             JBool(FALSE), JArr(<<"balcony">>), JStr(<<"excellent">>)),
     Listing(6, "active", JNum(150000), 1, Leeds, JNull, JNull, JNum(7),
             JBool(FALSE), JNull, JNull) >>

\* A row of properties is carried through the pipeline as its primary key;
\* Row gives the columns of a key.
Row(id) == Properties[CHOOSE k \in DOMAIN Properties : Properties[k].id = id]

\* the primary keys of a sequence of rows
Keys(rows) == [k \in DOMAIN rows |-> rows[k].id]

\* the rows of table property_enrichment, one per enriched property
PropertyEnrichment ==
  << [t |-> "object", property_id |-> 1, walkability_score |-> 88,
      price_trend_1yr_pct |-> 3],
     [t |-> "object", property_id |-> 3, walkability_score |-> 41,
      price_trend_1yr_pct |-> 0] >>

\* ------------------------------------------------------------------------
\* Quiz answers and the buyer profile

Answers(location, market, budget, family, outdoor, pets, vibe) ==
  [t |-> "object", location |-> location, city |-> JUndef, market |-> market,
   radius |-> JUndef, budget |-> budget, family |-> family, workLocation |-> JUndef,
   commutePriority |-> JUndef, condition |-> JUndef, outdoor |-> outdoor,
   vibe |-> vibe, pets |-> pets, parking |-> JUndef, dealbreakers |-> JUndef,
   priorities |-> JUndef, lifestyle |-> JUndef]

\* "£200K – £400K", the dash an en dash between blanks
Budget200to400 == <<"GBP200K", " ", "ENDASH", " ", "GBP400K">>

\* the request bodies of the model: no answers at all; a couple with a dog
\* looking in Leeds; a family looking where nothing is listed; a buyer who
\* names no place and a budget the tables do not know
AnswerBags ==
  { JUndef,
    Answers(JStr(<<"l", "e", "e", "d", "s">>), JUndef, JStr(Budget200to400),
            JStr(<<"Couple">>), JStr(<<"Big", " ", "garden">>), JStr(<<"Dog">>),
            JArr(<<"leafy">>)),
    Answers(JStr(<<"H", "u", "l", "l">>), JStr(<<"u", "k">>), JStr(<<"GBP800K+">>),
            JStr(<<"Housemates">>), JUndef, JStr(<<"No", " ", "pets">>), JUndef),
    Answers(JUndef, JUndef, JStr(<<"Flexible">>), JUndef, JUndef, JUndef,
            JStr(<<"quiet">>)) }

\* buildProfile(answers); reading a property of undefined throws a TypeError
BuildProfileThrows(answers) == answers.t = "undefined"

buildProfile(answers) ==
  [t |-> "object",
   city |-> Or(answers.location, answers.city),
   country |-> JStr(ToUpperCase(Or(answers.market, JStr(UK)).s)),
   radius |-> answers.radius,
   budget_range |-> answers.budget,
   family_size |-> answers.family,
   work_location |-> answers.workLocation,
   commute_priority |-> answers.commutePriority,
   property_condition |-> answers.condition,
   outdoor_space |-> answers.outdoor,
   vibe |-> Or(answers.vibe, JArr(<<>>)),
   pets |-> answers.pets,
   parking |-> answers.parking,
   dealbreakers |-> Or(answers.dealbreakers, JArr(<<>>)),
   priorities |-> Or(answers.priorities, JArr(<<>>)),
   lifestyle |-> Or(answers.lifestyle, JArr(<<>>)),
   raw_answers |-> answers]

\* ------------------------------------------------------------------------
\* The candidate filter

\* (profile.budget_range || '').replace(/\s*[–—-]\s*/g, '-')
NormBudget(profile) == ReplaceDashes(Or(profile.budget_range, JStr(<<>>)).s, 1)

\* budgetMap of getCandidates: the band of a label, <<>> for no entry
BudgetBandMap(label) ==
  CASE label = <<"Under", " ", "GBP200K">> -> <<0, 260000>>
    [] label = <<"GBP200K", "-", "GBP400K">> -> <<140000, 520000>>
    [] label = <<"GBP400K", "-", "GBP600K">> -> <<280000, 780000>>
    [] label = <<"GBP600K", "-", "GBP800K">> -> <<420000, 1040000>>
    [] label = <<"GBP800K+">> -> <<560000, PRICE_OPEN>>
    [] label = <<"Under", " ", "EUR200K">> -> <<0, 260000>>
    [] label = <<"EUR200K", "-", "EUR400K">> -> <<140000, 520000>>
    [] label = <<"EUR400K", "-", "EUR600K">> -> <<280000, 780000>>
    [] label = <<"EUR600K", "-", "EUR800K">> -> <<420000, 1040000>>
    [] label = <<"EUR800K+">> -> <<560000, PRICE_OPEN>>
    [] OTHER -> <<>>

\* a filter that lets nothing through for a label budgetMap does not hold
PriceBand_Closed(profile) ==
  LET band == BudgetBandMap(NormBudget(profile))
  IN IF band = <<>> THEN <<0, 0>> ELSE band

\* budgetMap[normBudget] || [0, 99999999]
PriceBand(profile) ==
  LET band == BudgetBandMap(NormBudget(profile))
  IN IF band = <<>> THEN <<0, PRICE_OPEN>> ELSE band

\* bedsMap of getCandidates: 0 for no entry
BedsMap(label) ==
  CASE label = <<"Just", " ", "me">> -> 1
    [] label = <<"Me", " ", "and", " ", "a", " ", "partner">> -> 1
    [] label = <<"Couple">> -> 1
    [] label = <<"Small", " ", "family", " ", "(1", "-", "2", " ", "kids)">> -> 2
    [] label = <<"Large", " ", "family", " ", "(3+", " ", "kids)">> -> 3
    [] label = <<"Larger", " ", "family", " ", "(3+", " ", "kids)">> -> 3
    [] label = <<"Sharing", " ", "with", " ", "friends">> -> 2
    [] label = <<"Housemates">> -> 2
    [] OTHER -> 0

\* bedsMap[profile.family_size] || 1
MinBeds(profile) ==
  LET beds == IF profile.family_size.t = "string" THEN BedsMap(profile.family_size.s) ELSE 0
  IN IF beds = 0 THEN 1 ELSE beds

\* column >= k in the store: never true of a null column
ColGte(col, k) == col.t = "number" /\ col.n >= k

\* a store that ignores the upper bound of a column
ColLte_Ignored(col, k) == col.t = "number"

\* column <= k in the store
ColLte(col, k) == col.t = "number" /\ col.n <= k

\* the filter of src/api/server.js: any of city, region, county holds the
\* place; the price bounds only when they narrow; the beds; no status filter
MatchesApi(profile, p) ==
  /\ Truthy(profile.city) =>
       \/ ILikeContains(p.city, profile.city.s)
       \/ ILikeContains(p.region, profile.city.s)
       \/ ILikeContains(p.county, profile.city.s)
  /\ PriceBand(profile)[1] > 0 => ColGte(p.price, PriceBand(profile)[1])
  /\ PriceBand(profile)[2] < PRICE_OPEN => ColLte(p.price, PriceBand(profile)[2])
  /\ ColGte(p.beds, MinBeds(profile))

\* the filter of the server bundled after the scoring service: active status,
\* city and country equal up to case, both price bounds, the beds
MatchesBundled(profile, p) ==
  /\ p.listing_status = "active"
  /\ Truthy(profile.city) => ILike(p.city, profile.city.s)
  /\ Truthy(profile.country) => ILike(p.country, profile.country.s)
  /\ ColGte(p.price, PriceBand(profile)[1])
  /\ ColLte(p.price, PriceBand(profile)[2])
  /\ ColGte(p.beds, MinBeds(profile))

\* await query.limit(50), the query succeeding: of the rows that match, the
\* first 50
FilterQuery(v, profile, rows) ==
  LET Matching == Filter(rows, {k \in DOMAIN rows :
                                  IF v = "api" THEN MatchesApi(profile, rows[k])
                                  ELSE MatchesBundled(profile, rows[k])})
  IN CHOOSE data \in {Keys(Take(found, QUERY_LIMIT)) : found \in {Matching}} : TRUE

\* supabase.from('properties').select('*').limit(50)
ScanQuery(rows) == Keys(Take(rows, QUERY_LIMIT))

\* whether getCandidates issues the scan after a failed filter query
ScansAfterError(v) == v = "api"

\* a pairing that leaves out || null: a candidate without a row gets undefined
EnrichmentOf_NoDefault(rows, id) ==
  IF \E k \in DOMAIN rows : rows[k].property_id = id
  THEN rows[CHOOSE k \in DOMAIN rows :
              /\ rows[k].property_id = id
              /\ \A l \in DOMAIN rows : rows[l].property_id = id => l <= k]
  ELSE JUndef

\* getEnrichmentBatch(ids)[id] || null, the rows being what the lookup returned
EnrichmentOf(rows, id) ==
  IF \E k \in DOMAIN rows : rows[k].property_id = id
  THEN rows[CHOOSE k \in DOMAIN rows :
              /\ rows[k].property_id = id
              /\ \A l \in DOMAIN rows : rows[l].property_id = id => l <= k]
  ELSE JNull

\* ------------------------------------------------------------------------
\* The rule-based scorer

\* budgetMap of scoreWithRules: the ceiling of a label, 0 for no entry
BudgetCeilingMap(label) ==
  CASE label = <<"Under", " ", "GBP200K">> -> 200000
    [] label = <<"GBP200K", "-", "GBP400K">> -> 400000
    [] label = <<"GBP400K", "-", "GBP600K">> -> 600000
    [] label = <<"GBP600K", "-", "GBP800K">> -> 800000
    [] label = <<"GBP800K+">> -> 1200000
    [] label = <<"Under", " ", "EUR200K">> -> 200000
    [] label = <<"EUR200K", "-", "EUR400K">> -> 400000
    [] label = <<"EUR400K", "-", "EUR600K">> -> 600000
    [] label = <<"EUR600K", "-", "EUR800K">> -> 800000
    [] label = <<"EUR800K+">> -> 1200000
    [] OTHER -> 0

\* budgetMap[profile.budget_range] || 500000 : the label is looked up as given
MaxBudget(profile) ==
  LET ceiling == IF profile.budget_range.t = "string"
                 THEN BudgetCeilingMap(profile.budget_range.s) ELSE 0
  IN IF ceiling = 0 THEN DEFAULT_MAX_BUDGET ELSE ceiling

\* price <= maxBudget * pct / 100, the price and the ceiling whole numbers
PriceWithin(price, maxBudget, pct) ==
  LET x == ToNumber(price)
  IN x.t = "number" /\ x.n * 100 <= maxBudget * pct

\* the budget step that takes nothing off for a price far above the ceiling
BudgetRule_NoPenalty(profile, property) ==
  LET maxBudget == MaxBudget(profile)
  IN IF PriceWithin(property.price, maxBudget, 100)
     THEN [add |-> 15,
           highlights |-> IF PriceWithin(property.price, maxBudget, 85)
                          THEN <<"Well within budget">> ELSE <<>>,
           concerns |-> <<>>]
     ELSE IF PriceWithin(property.price, maxBudget, 110)
     THEN [add |-> 5, highlights |-> <<>>, concerns |-> <<"Slightly above budget">>]
     ELSE [add |-> 0, highlights |-> <<>>, concerns |-> <<"Above budget">>]

\* the budget step: what it adds, the highlights and the concerns it pushes
BudgetRule(profile, property) ==
  LET maxBudget == MaxBudget(profile)
  IN IF PriceWithin(property.price, maxBudget, 100)
     THEN [add |-> 15,
           highlights |-> IF PriceWithin(property.price, maxBudget, 85)
                          THEN <<"Well within budget">> ELSE <<>>,
           concerns |-> <<>>]
     ELSE IF PriceWithin(property.price, maxBudget, 110)
     THEN [add |-> 5, highlights |-> <<>>, concerns |-> <<"Slightly above budget">>]
     ELSE [add |-> 0 - 10, highlights |-> <<>>, concerns |-> <<"Above budget">>]

\* the commute step; a commute of 0, null or undefined is falsy and skips it
CommuteRule(property) ==
  LET c == property.commute_city_center
  IN IF ~Truthy(c) THEN [add |-> 0, highlights |-> <<>>]
     ELSE IF LessEq(c, JNum(15))
     THEN [add |-> 15, highlights |-> <<ToString(c.n) \o " min commute">>]
     ELSE IF LessEq(c, JNum(25)) THEN [add |-> 10, highlights |-> <<>>]
     ELSE IF LessEq(c, JNum(40)) THEN [add |-> 5, highlights |-> <<>>]
     ELSE [add |-> 0, highlights |-> <<>>]

\* the walkability step with no more for a very walkable area than for a walkable one
WalkabilityRule_Flat(property) ==
  IF GreaterEq(property.walkability, JNum(6))
  THEN [add |-> 5, highlights |-> <<>>]
  ELSE [add |-> 0, highlights |-> <<>>]

WalkabilityRule(property) ==
  IF GreaterEq(property.walkability, JNum(8))
  THEN [add |-> 8, highlights |-> <<"Very walkable area">>]
  ELSE IF GreaterEq(property.walkability, JNum(6))
  THEN [add |-> 5, highlights |-> <<>>]
  ELSE [add |-> 0, highlights |-> <<>>]

\* profile.pets !== 'No pets'
HasPets(profile) == profile.pets # JStr(<<"No", " ", "pets">>)

PetsRule(profile, property) ==
  IF HasPets(profile) /\ Truthy(property.pet_friendly)
  THEN [add |-> 5, highlights |-> <<"Pet-friendly">>, concerns |-> <<>>]
  ELSE IF HasPets(profile)
  THEN [add |-> 0, highlights |-> <<>>, concerns |-> <<"Not pet-friendly">>]
  ELSE [add |-> 0, highlights |-> <<>>, concerns |-> <<>>]

\* property.features?.includes('garden')
FeaturesInclude(property, feature) ==
  property.features.t = "array" /\ feature \in Range(property.features.items)

OutdoorRule(profile, property) ==
  IF /\ profile.outdoor_space = JStr(<<"Big", " ", "garden">>)
     /\ FeaturesInclude(property, "garden")
  THEN [add |-> 5, highlights |-> <<"Has garden">>]
  ELSE [add |-> 0, highlights |-> <<>>]

SchoolsRule(property) ==
  IF property.schools_quality = JStr(<<"excellent">>)
  THEN [add |-> 5, highlights |-> <<"Excellent schools">>]
  ELSE [add |-> 0, highlights |-> <<>>]

\* a scorer that returns the sum as it is
Clamp_None(score) == score

\* Math.min(100, Math.max(0, score))
Clamp(score) == Min(100, Max(0, score))

RulesReasoning == "Score based on budget fit, commute time, walkability, and lifestyle preferences."

\* the sum of the baseline 50 and the six steps, before the clamp
RawRuleScore(profile, property) ==
  50 + BudgetRule(profile, property).add + CommuteRule(property).add
     + WalkabilityRule(property).add + PetsRule(profile, property).add
     + OutdoorRule(profile, property).add + SchoolsRule(property).add

RuleHighlights(profile, property) ==
  BudgetRule(profile, property).highlights \o CommuteRule(property).highlights
    \o WalkabilityRule(property).highlights \o PetsRule(profile, property).highlights
    \o OutdoorRule(profile, property).highlights \o SchoolsRule(property).highlights

RuleConcerns(profile, property) ==
  BudgetRule(profile, property).concerns \o PetsRule(profile, property).concerns

\* a scorer that lets the enrichment row count: 5 more for a listing that has one
scoreWithRules_Enriched(profile, property, enrichment) ==
  [t |-> "object",
   score |-> JNum(Clamp(RawRuleScore(profile, property)
                          + (IF Truthy(enrichment) THEN 5 ELSE 0))),
   highlights |-> JArr(Take(RuleHighlights(profile, property), 3)),
   concerns |-> JArr(Take(RuleConcerns(profile, property), 2)),
   reasoning |-> JStr(<<RulesReasoning>>)]

scoreWithRules(profile, property, enrichment) ==
  [t |-> "object",
   score |-> JNum(Clamp(RawRuleScore(profile, property))),
   highlights |-> JArr(Take(RuleHighlights(profile, property), 3)),
   concerns |-> JArr(Take(RuleConcerns(profile, property), 2)),
   reasoning |-> JStr(<<RulesReasoning>>)]

\* ------------------------------------------------------------------------
\* The reasoning service and scoreWithAI

\* A reply of client.messages.create: rejected, or a message whose content is
\* a sequence of blocks, the text of a block a sequence of tokens: a code
\* fence, a blank, a word of prose, or the text of one JSON value.
Fence == [tok |-> "fence"]

Blank == [tok |-> "blank"]

Prose == [tok |-> "prose"]

Json(v) == [tok |-> "json", value |-> v]

Message(kind, text) == [kind |-> kind, status |-> "ok", content |-> <<[text |-> text]>>]

ScoreObject(score, highlights) ==
  [t |-> "object", score |-> score, highlights |-> highlights,
   concerns |-> JArr(<<>>), reasoning |-> JStr(<<"A strong match.">>)]

\* the score the service gives a property when it follows its rubric
RubricScore(property) == <<82, 64, 64, 91, 30, 47>>[property.id]

WellFormed(property) ==
  ScoreObject(JNum(RubricScore(property)), JArr(<<"Close to the centre">>))

\* the reply that follows the system prompt: the bare JSON object
PlainReply(property) == Message("plain", <<Json(WellFormed(property))>>)

\* the replies that depart from it: a service error; prose around the object;
\* the object inside a code fence; an object without a score; a score above 100
DeviantReplies(property) ==
  { [kind |-> "error", status |-> "rejected", content |-> <<>>],
    Message("prose", <<Prose, Blank, Json(WellFormed(property))>>),
    Message("fenced", <<Fence, Blank, Json(WellFormed(property)), Blank, Fence>>),
    Message("noScore", <<Json(ScoreObject(JUndef, JUndef))>>),
    Message("tooHigh", <<Json(ScoreObject(JNum(150), JArr(<<>>)))>>) }

\* response.content[0]?.text || ''
ReplyText(reply) == IF reply.content = <<>> THEN <<>> ELSE reply.content[1].text

RECURSIVE Trim(_)
\* String.prototype.trim
Trim(text) ==
  IF text = <<>> THEN <<>>
  ELSE IF text[1] = Blank THEN Trim(Tail(text))
  ELSE IF text[Len(text)] = Blank THEN Trim(SubSeq(text, 1, Len(text) - 1))
  ELSE text

\* text.replace(/```json|```/g, '').trim()
Clean(text) == Trim(SelectSeq(text, LAMBDA tk : tk # Fence))

\* JSON.parse throws a SyntaxError unless the text is one JSON value
ParseThrows(text) == ~(Len(text) = 1 /\ text[1].tok = "json")

\* JSON.parse(text), for a text it accepts
JsonParse(text) == text[1].value

\* whether the try block of scoreWithAI ends in the catch clause
ScoringThrows(reply) == reply.status = "rejected" \/ ParseThrows(Clean(ReplyText(reply)))

\* scoreWithAI without its catch clause: an error or a parse failure rejects
scoreWithAI_NoCatch(profile, property, enrichment, reply) ==
  IF ScoringThrows(reply)
  THEN [state |-> "rejected", value |-> JUndef]
  ELSE [state |-> "fulfilled", value |-> JsonParse(Clean(ReplyText(reply)))]

\* how the promise of scoreWithAI settles once the service has replied: the
\* parsed value as it is, or the rule-based score from the catch clause
scoreWithAI(profile, property, enrichment, reply) ==
  IF ScoringThrows(reply)
  THEN [state |-> "fulfilled", value |-> scoreWithRules(profile, property, enrichment)]
  ELSE [state |-> "fulfilled", value |-> JsonParse(Clean(ReplyText(reply)))]

\* ------------------------------------------------------------------------
\* Ranking

\* x.score?.score || 0
SortKey(entry) == Or(OptScore(entry.score), JNum(0))

\* (a, b) => (b.score?.score || 0) - (a.score?.score || 0)
Comparator(a, b) ==
  CHOOSE v \in {Minus(x, y) : x \in {SortKey(b)}, y \in {SortKey(a)}} : TRUE

\* SortCompare: the comparator's value as a number, NaN taken as +0
SortCompare(a, b) ==
  LET v == Comparator(a, b) IN IF v.t = "number" THEN v.n ELSE 0

\* the l-th entry comes before the k-th in the sorted array: the comparator
\* puts it first, or holds the two equal and it came first
SortsBefore(entries, l, k) ==
  LET c == SortCompare(entries[l], entries[k]) IN c < 0 \/ (c = 0 /\ l < k)

\* the place of each entry in the sorted array: after the entries that come
\* before it
SortedPlaces(entries) ==
  [k \in DOMAIN entries |->
     1 + Cardinality({l \in DOMAIN entries : SortsBefore(entries, l, k)})]

\* the stable sort: each entry at its place
StableSort(entries) ==
  CHOOSE sorted \in {[i \in DOMAIN entries |-> entries[CHOOSE k \in DOMAIN entries :
                                                          place[k] = i]] :
                       place \in {SortedPlaces(entries)}} : TRUE

\* the comparator is consistent on the entries when none of its values is NaN
ConsistentComparator(entries) ==
  \A k, l \in DOMAIN entries : Comparator(entries[k], entries[l]).t = "number"

\* Array.prototype.sort: a stable sort under a consistent comparator; under an
\* inconsistent one the order is implementation-defined
SortOutcomes(entries) ==
  IF ConsistentComparator(entries) THEN {StableSort(entries)}
  ELSE {[k \in DOMAIN entries |-> entries[f[k]]] : f \in Permutations(DOMAIN entries)}

\* results.slice(0, 5)
TopSlice(sorted) == Take(sorted, TOP_N)

\* ------------------------------------------------------------------------
\* The persona generator

Persona(title) == [t |-> "object", title |-> title]

\* the personas array of fallbackPersona
CannedPersonas ==
  << Persona("The Nester"), Persona("The Urban Explorer"),
     Persona("The Green Seeker"), Persona("The Smart Commuter") >>

\* personas[Math.floor(Math.random() * personas.length)] : any of them
fallbackPersona == Range(CannedPersonas)

\* the reply of the persona call the prompt asks for: the JSON object alone
PlainPersonaReply == Message("plain", <<Json(Persona("The Urban Gardener"))>>)

\* the replies that depart from it: the object in a code fence, a service
\* error, prose around the object, the JSON value null
DeviantPersonaReplies ==
  { Message("fenced", <<Fence, Json(Persona("The Urban Gardener")), Fence>>),
    [kind |-> "error", status |-> "rejected", content |-> <<>>],
    Message("prose", <<Prose, Blank, Json(Persona("The Urban Gardener"))>>),
    Message("null", <<Json(JNull)>>) }

\* the values generatePersona may return once the service has replied
generatePersona(reply) ==
  IF reply.status = "rejected" \/ ParseThrows(Clean(ReplyText(reply)))
  THEN fallbackPersona
  ELSE {JsonParse(Clean(ReplyText(reply)))}

\* ------------------------------------------------------------------------
\* State

\* how many replies of the reasoning service to one request may depart from
\* the plain well-formed reply
MaxDeviations == 1

VARIABLES
  variant,      \* which server runs: "api" or "bundled"
  client,       \* whether ANTHROPIC_API_KEY is set, so that client is not null
  answers,      \* req.body.answers
  pc,           \* where the handler is: the await it is suspended at
  profile,      \* buildProfile(answers)
  candidates,   \* what getCandidates returned
  filtered,     \* getCandidates has returned
  queryFailed,  \* the filter query came back with an error
  scanFailed,   \* the scan issued after it came back without rows
  pwe,          \* propertiesWithEnrichment
  batchStart,   \* i of scoreProperties
  calls,        \* the promises handed to Promise.all for the batch in flight
  overtaken,    \* whether a call of the latest batch settled while an
                \* earlier call of the batch was pending
  results,      \* results of scoreProperties
  topMatches,   \* what scoreProperties returned
  personaCall,  \* generatePersona: "idle", "pending" or "done"
  persona,      \* what generatePersona returned
  saved,        \* how the insert of saveSearch ended: "none", "ok", "error", "threw"
  response,     \* what was sent: status 0 until res.json runs
  deviations,   \* replies so far that departed from the plain reply
  scoreLog      \* for each scoreWithAI call that settled: the property, the
                \* kind of reply the service gave ("none" when it was not
                \* asked) and the value the promise settled with

\* the state of a match request
matchVars ==
  << variant, client, answers, pc, profile, candidates, filtered, queryFailed,
     scanFailed, pwe, batchStart, calls, overtaken, results, topMatches,
     personaCall, persona, saved, response, deviations, scoreLog >>

\* how many agents send a claim for the listing
MaxAgents == 2

\* req.agentId of the claim requests, one request per agent
Agents == 1..MaxAgents

\* agent_id of a listing no agent holds
NoAgent == 0

VARIABLES
  listingClaims,     \* the rows of table listing_claims, the id of a row its place
  propertyAgentId,   \* column agent_id of the listing in table properties
  claimPc,           \* for each agent, the await its claim request is suspended at
  claim,             \* for each agent, the local claim of its request
  claimResponse,     \* for each agent, the status sent and the claim status in the body
  notifications      \* the agents with a row in agent_notifications

\* the state of the claim requests
claimVars ==
  << listingClaims, propertyAgentId, claimPc, claim, claimResponse, notifications >>

vars == << matchVars, claimVars >>

\* no claim request has been received
NoClaims ==
  /\ listingClaims = <<>>
  /\ propertyAgentId = NoAgent
  /\ claimPc = [a \in Agents |-> "idle"]
  /\ claim = [a \in Agents |-> JNull]
  /\ claimResponse = [a \in Agents |-> [status |-> 0]]
  /\ notifications = {}

\* ------------------------------------------------------------------------
\* The match handler

formatProperty(p) ==
  [id |-> p.id, price |-> p.price, beds |-> p.beds, city |-> p.city,
   region |-> p.region, country |-> p.country, walkability |-> p.walkability,
   schools_quality |-> p.schools_quality, pet_friendly |-> p.pet_friendly,
   features |-> p.features, commute_city_center |-> p.commute_city_center,
   agent |-> JNull]

\* v?.highlights, v?.concerns, v?.reasoning
OptField(v, field) == IF v.t = "object" THEN v[field] ELSE JUndef

\* rank: i in place of rank: i + 1
MatchEntry_ZeroBased(m, rank) ==
  [rank |-> rank - 1,
   property |-> formatProperty(Row(m.property)),
   enrichment |-> m.enrichment,
   score |-> Or(OptScore(m.score), JNum(0)),
   highlights |-> Or(OptField(m.score, "highlights"), JArr(<<>>)),
   concerns |-> Or(OptField(m.score, "concerns"), JArr(<<>>)),
   reasoning |-> Or(OptField(m.score, "reasoning"), JStr(<<>>))]

\* one entry of matches in the ranked response
MatchEntry(m, rank) ==
  [rank |-> rank,
   property |-> formatProperty(Row(m.property)),
   enrichment |-> m.enrichment,
   score |-> Or(OptScore(m.score), JNum(0)),
   highlights |-> Or(OptField(m.score, "highlights"), JArr(<<>>)),
   concerns |-> Or(OptField(m.score, "concerns"), JArr(<<>>)),
   reasoning |-> Or(OptField(m.score, "reasoning"), JStr(<<>>))]

\* the body sent when scoring has run; elapsed_ms, a clock reading, is left out
RankedResponse(who, top, count, aiKey) ==
  [status |-> 200, kind |-> "ranked", persona |-> who,
   matches |-> [k \in DOMAIN top |-> MatchEntry(top[k], k)],
   meta |-> [candidates |-> count, ai_powered |-> aiKey]]

NoMatchMessage == "No properties found matching your criteria. Try widening your search."

\* the body sent when getCandidates returns no candidate
EmptyResponse ==
  [status |-> 200, kind |-> "empty", matches |-> <<>>, persona |-> JNull,
   message |-> NoMatchMessage]

\* err.message of the TypeError buildProfile throws on answers that are undefined
TypeErrorMessage == "Cannot read properties of undefined"

\* the body sent from the catch clause of the handler
FailureResponse(v, errMessage) ==
  [status |-> 500, kind |-> "failed",
   error |-> IF v = "api" THEN <<"Matching failed: ", errMessage>>
             ELSE <<"Matching failed. Please try again.">>]

\* saveSearch without its try: an insert that throws reaches the handler's catch
AfterSave_Propagates(outcome, ranked) ==
  IF outcome = "threw" THEN FailureResponse(variant, "insert failed") ELSE ranked

\* what the handler sends once saveSearch has returned: saveSearch catches
\* what the insert throws, and its result, searchId, is not part of the body
AfterSave(outcome, ranked) == ranked

\* the handler without its early return
ShortCircuits_Never(cands) == FALSE

\* candidates.length === 0 : the handler answers at once
ShortCircuits(cands) == Len(cands) = 0

\* slice(i) in place of slice(i, i + BATCH_SIZE): all that is left at once
Batch_Unbounded(list, i) == Slice(list, i, Len(list))

\* propertiesWithEnrichment.slice(i, i + BATCH_SIZE)
Batch(list, i) == Slice(list, i, BATCH_SIZE)

\* entries that all take the enrichment of the first of the batch
BatchEntries_FirstEnrichment(batch, scores) ==
  [j \in DOMAIN batch |->
     [property |-> batch[j].property, enrichment |-> batch[1].enrichment,
      score |-> scores[j]]]

\* results.push({property: batch[j].property, enrichment: batch[j].enrichment,
\*               score: scores[j]}) for each j
BatchEntries(batch, scores) ==
  [j \in DOMAIN batch |->
     [property |-> batch[j].property, enrichment |-> batch[j].enrichment,
      score |-> scores[j]]]

\* the values in an order of settlement, not of the promises: back to front
\* once a call has overtaken an earlier one
PromiseAll_AsSettled(promises) ==
  [j \in DOMAIN promises |->
     promises[IF overtaken THEN Len(promises) + 1 - j ELSE j].value]

\* Promise.all: the values in the order of the promises, whatever the order
\* they settled in
PromiseAll(promises) == [j \in DOMAIN promises |-> promises[j].value]

\* generatePersona called alongside scoreProperties, not after it
PersonaStartsAt_Alongside(at) == at \in {"scoring", "persona"}

\* where the handler is when it calls generatePersona: past await scoreProperties
PersonaStartsAt(at) == at = "persona"

NoResponse == [status |-> 0, kind |-> "none"]

Idle ==
  /\ profile = JUndef
  /\ candidates = <<>>
  /\ filtered = FALSE
  /\ queryFailed = FALSE
  /\ scanFailed = FALSE
  /\ pwe = <<>>
  /\ batchStart = 0
  /\ calls = <<>>
  /\ overtaken = FALSE
  /\ results = <<>>
  /\ topMatches = <<>>
  /\ personaCall = "idle"
  /\ persona = JUndef
  /\ saved = "none"
  /\ response = NoResponse
  /\ deviations = 0
  /\ scoreLog = {}

Init ==
  /\ variant \in {"api", "bundled"}
  /\ client \in BOOLEAN
  /\ answers \in AnswerBags
  /\ pc = "received"
  /\ Idle
  /\ NoClaims

\* the catch clause of the handler: res.status(500).json(...)
Fail(errMessage) ==
  /\ response' = FailureResponse(variant, errMessage)
  /\ pc' = "done"

\* the handler once getCandidates has returned cands: the empty answer, or on
\* to the enrichment lookup
AfterCandidates(cands) ==
  /\ candidates' = cands
  /\ filtered' = TRUE
  /\ IF ShortCircuits(cands)
     THEN response' = EmptyResponse /\ pc' = "done"
     ELSE response' = response /\ pc' = "enrich"

\* app.post('/api/match') up to the await of the filter query
MatchRequest ==
  /\ pc = "received"
  /\ IF BuildProfileThrows(answers)
     THEN /\ Fail(TypeErrorMessage)
          /\ UNCHANGED profile
     ELSE /\ profile' = buildProfile(answers)
          /\ pc' = "filter"
          /\ UNCHANGED response
  /\ UNCHANGED << claimVars, variant, client, answers, candidates, filtered, queryFailed,
                  scanFailed, pwe, batchStart, calls, overtaken, results, topMatches,
                  personaCall, persona, saved, deviations, scoreLog >>

\* the filter query comes back, with rows or with an error
FilterReply ==
  /\ pc = "filter"
  /\ \E failed \in BOOLEAN :
       /\ queryFailed' = failed
       /\ IF ~failed
          THEN \E rows \in {FilterQuery(variant, profile, Properties)} :
                 AfterCandidates(rows)
          ELSE IF ScansAfterError(variant)
          THEN pc' = "scan" /\ UNCHANGED << candidates, filtered, response >>
          ELSE AfterCandidates(<<>>)
  /\ UNCHANGED << claimVars, variant, client, answers, profile, scanFailed, pwe, batchStart,
                  calls, overtaken, results, topMatches, personaCall, persona, saved,
                  deviations, scoreLog >>

\* the scan issued after a failed filter query comes back
ScanReply ==
  /\ pc = "scan"
  /\ \E failed \in BOOLEAN :
       /\ scanFailed' = failed
       /\ AfterCandidates(IF failed THEN <<>> ELSE ScanQuery(Properties))
  /\ UNCHANGED << claimVars, variant, client, answers, profile, queryFailed, pwe, batchStart,
                  calls, overtaken, results, topMatches, personaCall, persona, saved,
                  deviations, scoreLog >>

\* getEnrichmentBatch comes back (without rows when the lookup failed); the
\* handler pairs each candidate with its row and calls scoreProperties
EnrichReply ==
  /\ pc = "enrich"
  /\ \E failed \in BOOLEAN :
       LET ids == Range(candidates)
           rows == IF failed THEN <<>>
                   ELSE Filter(PropertyEnrichment,
                               {k \in DOMAIN PropertyEnrichment :
                                  PropertyEnrichment[k].property_id \in ids})
       IN pwe' = [k \in DOMAIN candidates |->
                    [property |-> candidates[k],
                     enrichment |-> EnrichmentOf(rows, candidates[k])]]
  /\ batchStart' = 0
  /\ results' = <<>>
  /\ pc' = "scoring"
  /\ UNCHANGED << claimVars, variant, client, answers, profile, candidates, filtered,
                  queryFailed, scanFailed, calls, overtaken, topMatches, personaCall, persona,
                  saved, response, deviations, scoreLog >>

\* one turn of the for loop up to await Promise.all: scoreWithAI is called for
\* every entry of the batch; without a client each call returns the rule-based
\* score at once, with one each call is left waiting for the service
StartBatch ==
  /\ pc = "scoring"
  /\ calls = <<>>
  /\ batchStart < Len(pwe)
  /\ LET batch == Batch(pwe, batchStart)
         now == [j \in DOMAIN batch |->
                   scoreWithRules(profile, Row(batch[j].property), batch[j].enrichment)]
     IN /\ calls' = [j \in DOMAIN batch |->
                       IF client
                       THEN [property |-> batch[j].property, state |-> "pending",
                             value |-> JUndef]
                       ELSE [property |-> batch[j].property, state |-> "fulfilled",
                             value |-> now[j]]]
        /\ overtaken' = FALSE
        /\ scoreLog' = IF client THEN scoreLog
                       ELSE scoreLog \cup
                            {[property |-> batch[j].property, reply |-> "none",
                              value |-> now[j]] : j \in DOMAIN batch}
  /\ UNCHANGED << claimVars, variant, client, answers, pc, profile, candidates, filtered,
                  queryFailed, scanFailed, pwe, batchStart, results, topMatches,
                  personaCall, persona, saved, response, deviations >>

\* the service replies to one of the calls in flight, in any order; a promise
\* that rejects makes Promise.all reject and the handler's catch clause answer
ServiceReply ==
  /\ pc = "scoring"
  /\ UNCHANGED << claimVars, variant, client, answers, profile, candidates, filtered,
                  queryFailed, scanFailed, pwe, batchStart, results, topMatches,
                  personaCall, persona, saved >>
  /\ \E j \in DOMAIN calls :
       /\ calls[j].state = "pending"
       /\ \E entry \in {Batch(pwe, batchStart)[j]} :
          \E property \in {Row(entry.property)} :
          \E reply \in {PlainReply(property)} \cup
                       (IF deviations < MaxDeviations
                        THEN DeviantReplies(property) ELSE {}) :
            /\ deviations' = IF reply.kind = "plain" THEN deviations
                             ELSE deviations + 1
            /\ \E settled \in {scoreWithAI(profile, property, entry.enrichment, reply)} :
               /\ calls' = [calls EXCEPT ![j].state = settled.state,
                                         ![j].value = settled.value]
               /\ overtaken' = (overtaken \/ \E i \in 1..(j - 1) : calls[i].state = "pending")
               /\ scoreLog' = scoreLog \cup
                    {[property |-> entry.property, reply |-> reply.kind,
                      value |-> settled.value]}
               /\ IF settled.state = "rejected"
                  THEN Fail("service error")
                  ELSE UNCHANGED << pc, response >>

\* Promise.all resolves: the scores are pushed onto results and i moves on
CollectBatch ==
  /\ pc = "scoring"
  /\ calls # <<>>
  /\ \A j \in DOMAIN calls : calls[j].state = "fulfilled"
  /\ results' = results \o BatchEntries(Batch(pwe, batchStart), PromiseAll(calls))
  /\ batchStart' = batchStart + BATCH_SIZE
  /\ calls' = <<>>
  /\ UNCHANGED << claimVars, variant, client, answers, pc, profile, candidates, filtered,
                  queryFailed, scanFailed, pwe, overtaken, topMatches, personaCall, persona,
                  saved, response, deviations, scoreLog >>

\* the loop is over: sort, slice, return to the handler
Rank ==
  /\ pc = "scoring"
  /\ calls = <<>>
  /\ batchStart >= Len(pwe)
  /\ \E sorted \in SortOutcomes(results) : topMatches' = TopSlice(sorted)
  /\ overtaken' = FALSE
  /\ pc' = "persona"
  /\ UNCHANGED << claimVars, variant, client, answers, profile, candidates, filtered,
                  queryFailed, scanFailed, pwe, batchStart, calls, results,
                  personaCall, persona, saved, response, deviations, scoreLog >>

\* generatePersona is called: without a client it returns a canned persona at
\* once, with one it is left waiting for the service
StartPersona ==
  /\ PersonaStartsAt(pc)
  /\ personaCall = "idle"
  /\ IF client
     THEN personaCall' = "pending" /\ UNCHANGED persona
     ELSE personaCall' = "done" /\ persona' \in fallbackPersona
  /\ UNCHANGED << claimVars, variant, client, answers, pc, profile, candidates, filtered,
                  queryFailed, scanFailed, pwe, batchStart, calls, overtaken, results,
                  topMatches, saved, response, deviations, scoreLog >>

\* the service replies to the persona call
PersonaReply ==
  /\ personaCall = "pending"
  /\ pc # "done"
  /\ \E reply \in {PlainPersonaReply} \cup
                  (IF deviations < MaxDeviations THEN DeviantPersonaReplies ELSE {}) :
       /\ persona' \in generatePersona(reply)
       /\ deviations' = IF reply.kind = "plain" THEN deviations ELSE deviations + 1
  /\ personaCall' = "done"
  /\ UNCHANGED << claimVars, variant, client, answers, pc, profile, candidates, filtered,
                  queryFailed, scanFailed, pwe, batchStart, calls, overtaken, results,
                  topMatches, saved, response, scoreLog >>

\* await generatePersona returns; saveSearch issues its insert
AwaitPersona ==
  /\ pc = "persona"
  /\ personaCall = "done"
  /\ pc' = "save"
  /\ UNCHANGED << claimVars, variant, client, answers, profile, candidates, filtered,
                  queryFailed, scanFailed, pwe, batchStart, calls, overtaken, results,
                  topMatches, personaCall, persona, saved, response, deviations,
                  scoreLog >>

\* the insert of saveSearch ends, one way or another; the handler answers
SaveReply ==
  /\ pc = "save"
  /\ \E outcome \in {"ok", "error", "threw"} :
       /\ saved' = outcome
       /\ response' = AfterSave(outcome, RankedResponse(persona, topMatches,
                                                        Len(candidates), client))
  /\ pc' = "done"
  /\ UNCHANGED << claimVars, variant, client, answers, profile, candidates, filtered,
                  queryFailed, scanFailed, pwe, batchStart, calls, overtaken, results,
                  topMatches, personaCall, persona, deviations, scoreLog >>

Next ==
  \/ MatchRequest
  \/ FilterReply
  \/ ScanReply
  \/ EnrichReply
  \/ StartBatch
  \/ ServiceReply
  \/ CollectBatch
  \/ Rank
  \/ StartPersona
  \/ PersonaReply
  \/ AwaitPersona
  \/ SaveReply

Spec == Init /\ [][Next]_vars

\* ------------------------------------------------------------------------
\* Properties of the match pipeline

\* the reply of a kind to the scoring call for a property
ReplyOfKind(kind, property) ==
  CHOOSE reply \in {PlainReply(property)} \cup DeviantReplies(property) : reply.kind = kind

\* the enrichment the handler paired with a candidate
PairedEnrichment(id) == pwe[CHOOSE k \in DOMAIN pwe : pwe[k].property = id].enrichment

\* the rule-based score of a candidate of this request
RuleScoreOf(id) == scoreWithRules(profile, Row(id), PairedEnrichment(id))

\* the service was asked and its reply made the try block throw
ReplyFailed(entry) ==
  entry.reply # "none" /\ ScoringThrows(ReplyOfKind(entry.reply, Row(entry.property)))

\* the service was asked and its reply parsed as JSON
ReplyParsed(entry) ==
  entry.reply # "none" /\ ~ScoringThrows(ReplyOfKind(entry.reply, Row(entry.property)))

\* the JSON value of a reply that parsed
ParsedValue(entry) ==
  JsonParse(Clean(ReplyText(ReplyOfKind(entry.reply, Row(entry.property)))))

\* {score: int, highlights: [string], concerns: [string], reasoning: string}
IsScoreResult(v) ==
  /\ v.t = "object"
  /\ v.score.t = "number"
  /\ v.highlights.t = "array"
  /\ v.concerns.t = "array"
  /\ v.reasoning.t = "string"

\* every candidate of the request has been scored
AllScored == pwe # <<>> /\ \A k \in DOMAIN pwe : \E e \in scoreLog : e.property = pwe[k].property

\* C1: every score a scoring call returns, on the reasoning-service path or on
\* the rule-based path, lies in 0..100.
C1_ScoreInRange ==
  \A e \in scoreLog :
    OptScore(e.value).t = "number" => OptScore(e.value).n \in 0..100

\* C2: a call whose reply is a service error or does not parse settles with
\* the rule-based score of its own property; every other call settles with what
\* the service said for it; every score collected is the one its own call
\* settled with; and the request is answered with the ranked response, never
\* with the failure response.
C2_FailureIsolated ==
  /\ \A e \in scoreLog : ReplyFailed(e) => e.value = RuleScoreOf(e.property)
  /\ \A e \in scoreLog : ReplyParsed(e) => e.value = ParsedValue(e)
  /\ \A k \in DOMAIN results :
       \E e \in scoreLog : e.property = results[k].property /\ e.value = results[k].score
  /\ pwe # <<>> => response.kind # "failed"
  /\ (pwe # <<>> /\ pc = "done") => (response.kind = "ranked" /\ Len(results) = Len(pwe))

\* a request answered with the ranked response although one call failed in a
\* batch whose other calls got the plain reply
C2_Witness ==
  /\ pc = "done"
  /\ response.kind = "ranked"
  /\ \E e \in scoreLog : ReplyFailed(e)
  /\ \E e \in scoreLog : e.reply = "plain"
  /\ Len(results) > BATCH_SIZE

\* C3: the k-th entry of results holds the k-th candidate, its enrichment and
\* the score the call for that candidate settled with, in whatever order the
\* calls of a batch settled.
C3_OrderPreserved ==
  \A k \in DOMAIN results :
    /\ results[k].property = pwe[k].property
    /\ results[k].enrichment = pwe[k].enrichment
    /\ \E e \in scoreLog : e.property = pwe[k].property /\ e.value = results[k].score

\* a batch collected one of whose calls settled before an earlier call, one
\* of its calls having got a reply other than the plain one
C3_Witness ==
  /\ client
  /\ calls = <<>>
  /\ pc = "scoring"
  /\ Len(results) >= 2
  /\ overtaken
  /\ \E e \in scoreLog : e.reply # "plain"

\* C4: at most BATCH_SIZE scoring calls are outstanding, they are the calls of
\* the batch at i, and every candidate before i has been collected: no call of
\* a batch starts before all calls of the batch before it have settled.
C4_BatchesSequential ==
  /\ Cardinality({j \in DOMAIN calls : calls[j].state = "pending"}) <= BATCH_SIZE
  /\ Len(calls) <= BATCH_SIZE
  /\ calls # <<>> =>
       /\ Len(results) = batchStart
       /\ \A j \in DOMAIN calls : calls[j].property = pwe[batchStart + j].property

\* the second batch in flight, the first one collected
C4_Witness ==
  /\ client
  /\ batchStart = BATCH_SIZE
  /\ Len(results) = BATCH_SIZE
  /\ \E j \in DOMAIN calls : calls[j].state = "pending"

\* C5: when getCandidates returns no candidate the request is answered at once
\* with the empty-result body, and no scoring call and no persona call is made
\* for it, before or after.
C5_EmptyShortCircuit ==
  /\ ~filtered => (calls = <<>> /\ scoreLog = {} /\ personaCall = "idle")
  /\ (filtered /\ candidates = <<>>) =>
       /\ pc = "done"
       /\ response = EmptyResponse
       /\ response.message = "No properties found matching your criteria. Try widening your search."
       /\ calls = <<>>
       /\ scoreLog = {}
       /\ personaCall = "idle"
       /\ persona = JUndef

\* the filter query succeeded and matched nothing
C5_Witness == filtered /\ candidates = <<>> /\ ~queryFailed /\ pc = "done"

\* C7: when the filter query fails, getCandidates returns the rows of the
\* scan capped at QUERY_LIMIT.
C7_FallbackScan ==
  (filtered /\ queryFailed /\ ~scanFailed) => candidates = ScanQuery(Properties)

\* C8: getCandidates returns at most QUERY_LIMIT rows, all of them active.
C8_ActiveAndCapped ==
  filtered =>
    /\ Len(candidates) <= QUERY_LIMIT
    /\ \A k \in DOMAIN candidates : Row(candidates[k]).listing_status = "active"

\* C9: a reply that parses as JSON but is no Score Result is rejected: the
\* call settles with the rule-based score.
C9_ShapeValidated ==
  \A e \in scoreLog :
    (ReplyParsed(e) /\ ~IsScoreResult(ParsedValue(e))) => e.value = RuleScoreOf(e.property)

\* C10 as stated: the persona call is issued without waiting for scoring, so
\* by the time every candidate is scored it has been issued.
C10_PersonaAlongside == (client /\ AllScored) => personaCall # "idle"

\* C10 amended: generatePersona is called only once scoreProperties has
\* returned: all candidates scored, collected and ranked, no call in flight.
C10_PersonaAfterScoring ==
  personaCall # "idle" =>
    /\ pc \in {"persona", "save", "done"}
    /\ calls = <<>>
    /\ AllScored
    /\ Len(results) = Len(pwe)

\* the persona call in flight after two batches of scoring calls
C10_Witness == client /\ personaCall = "pending" /\ Len(results) > BATCH_SIZE

\* ------------------------------------------------------------------------
\* The ranking step of scoreProperties on its own: the loop is over, results
\* holds one entry per candidate, and each score is whatever a scoring call
\* may settle with, for the service's JSON is returned as parsed: an
\* object with a number as score, an object whose score is a word, or null.

\* the longest list of results drawn
MaxRanked == 4

\* the values a scoring call may have settled with
DrawnScores ==
  { ScoreObject(JNum(10), JArr(<<>>)), ScoreObject(JNum(90), JArr(<<>>)),
    ScoreObject(JStr(<<"high">>), JArr(<<>>)), JNull }

InitRank ==
  /\ variant \in {"api"}
  /\ client = TRUE
  /\ answers = JUndef
  /\ profile = JUndef
  /\ \E n \in 0..MaxRanked :
       \E scores \in [1..n -> DrawnScores] :
         /\ candidates = [k \in 1..n |-> k]
         /\ pwe = [k \in 1..n |-> [property |-> k, enrichment |-> JNull]]
         /\ results = [k \in 1..n |-> [property |-> k, enrichment |-> JNull,
                                       score |-> scores[k]]]
         /\ scoreLog = {[property |-> k, reply |-> "drawn", value |-> scores[k]] :
                          k \in 1..n}
         /\ batchStart = BATCH_SIZE * ((n + BATCH_SIZE - 1) \div BATCH_SIZE)
  /\ pc = "scoring"
  /\ filtered = TRUE
  /\ queryFailed = FALSE
  /\ scanFailed = FALSE
  /\ calls = <<>>
  /\ overtaken = FALSE
  /\ topMatches = <<>>
  /\ personaCall = "idle"
  /\ persona = JUndef
  /\ saved = "none"
  /\ response = NoResponse
  /\ deviations = 0
  /\ NoClaims

NextRank == Rank

SpecRank == InitRank /\ [][NextRank]_vars

\* the score of a match as the response shows it is a number
Numeric(entry) == SortKey(entry).t = "number"

\* C6: the matches scoreProperties returns are in non-increasing order of
\* score, there are min(TOP_N, candidates) of them, and no candidate left out
\* has a score greater than one returned.
C6_TopFive ==
  pc = "persona" =>
    /\ Len(topMatches) = Min(TOP_N, Len(results))
    /\ \A k, l \in DOMAIN topMatches :
         (k < l /\ Numeric(topMatches[k]) /\ Numeric(topMatches[l]))
           => SortKey(topMatches[k]).n >= SortKey(topMatches[l]).n
    /\ \A k \in DOMAIN results : \A l \in DOMAIN topMatches :
         (results[k] \notin Range(topMatches) /\ Numeric(results[k]) /\ Numeric(topMatches[l]))
           => SortKey(results[k]).n <= SortKey(topMatches[l]).n

\* ------------------------------------------------------------------------
\* Properties of the response

\* the call that scored a match
ScoredBy(m) == {e \in scoreLog : e.property = m.property}

\* C11: ai_powered is true only when the scores returned came from the
\* reasoning service, and false when they came from the rule-based scorer.
C11_FlagReportsPath ==
  response.kind = "ranked" =>
    /\ response.meta.ai_powered =>
         \A k \in DOMAIN topMatches : \E e \in ScoredBy(topMatches[k]) : ReplyParsed(e)
    /\ ~response.meta.ai_powered =>
         \A k \in DOMAIN topMatches : \E e \in ScoredBy(topMatches[k]) : e.reply = "none"

\* C12: the failure response carries the generic message alone, no text of
\* the exception caught.
C12_GenericFailure ==
  response.kind = "failed" =>
    /\ response.status = 500
    /\ \A k \in DOMAIN response.error : response.error[k] # TypeErrorMessage

\* ------------------------------------------------------------------------
\* scoreWithRules on its own: the scorer is handed a profile built from quiz
\* answers and one listing, whose columns range over the values below.

RulePrices == << JNum(340000), JNum(400000), JNum(440000), JNum(600000) >>

RuleCommutes == << JNull, JNum(0), JNum(12), JNum(20), JNum(30), JNum(45) >>

RuleWalks == << JNum(5), JNum(6), JNum(9) >>

RulePetFriendly == << JBool(TRUE), JBool(FALSE) >>

RuleFeatures == << JArr(<<"garden">>), JNull >>

RuleSchools == << JStr(<<"excellent">>), JStr(<<"good">>) >>

\* the k-th value of a column, counting from 0 and going round
Nth(column, k) == column[(k % Len(column)) + 1]

\* one listing per combination of the columns' values
RuleListingIds ==
  1..(Len(RulePrices) * Len(RuleCommutes) * Len(RuleWalks) * Len(RulePetFriendly)
        * Len(RuleFeatures) * Len(RuleSchools))

\* the listing of an id: the id, less one, read as a number in mixed radix
RuleRow(id) ==
  LET k1 == id - 1
      k2 == k1 \div Len(RulePrices)
      k3 == k2 \div Len(RuleCommutes)
      k4 == k3 \div Len(RuleWalks)
      k5 == k4 \div Len(RulePetFriendly)
      k6 == k5 \div Len(RuleFeatures)
  IN Listing(id, "active", Nth(RulePrices, k1), 2, Leeds, JNull, Nth(RuleCommutes, k2),
             Nth(RuleWalks, k3), Nth(RulePetFriendly, k4), Nth(RuleFeatures, k5),
             Nth(RuleSchools, k6))

\* the budget label with a plain hyphen, as budgetMap of scoreWithRules spells it
Budget200to400Hyphen == <<"GBP200K", "-", "GBP400K">>

\* the answers the profiles are built from
RuleAnswers ==
  { Answers(JStr(Leeds), JUndef, JStr(label), JUndef, outdoor, pets, JUndef) :
      label \in {Budget200to400, Budget200to400Hyphen, <<"GBP800K+">>, <<"Flexible">>},
      outdoor \in {JStr(<<"Big", " ", "garden">>), JUndef},
      pets \in {JStr(<<"Dog">>), JStr(<<"No", " ", "pets">>)} }

InitRules ==
  /\ variant \in {"api"}
  /\ client = FALSE
  /\ answers \in RuleAnswers
  /\ profile = buildProfile(answers)
  /\ \E id \in RuleListingIds :
       /\ candidates = <<id>>
       /\ pwe = <<[property |-> id, enrichment |-> JNull]>>
  /\ pc = "rules"
  /\ filtered = TRUE
  /\ queryFailed = FALSE
  /\ scanFailed = FALSE
  /\ batchStart = 0
  /\ calls = <<>>
  /\ overtaken = FALSE
  /\ results = <<>>
  /\ topMatches = <<>>
  /\ personaCall = "idle"
  /\ persona = JUndef
  /\ saved = "none"
  /\ response = NoResponse
  /\ deviations = 0
  /\ scoreLog = {}
  /\ NoClaims

\* scoreWithRules(profile, property, enrichment) returns
ScoreByRules ==
  /\ pc = "rules"
  /\ scoreLog' = {[property |-> pwe[1].property, reply |-> "none",
                   value |-> scoreWithRules(profile, RuleRow(pwe[1].property),
                                            pwe[1].enrichment)]}
  /\ pc' = "again"
  /\ UNCHANGED << claimVars, variant, client, answers, profile, candidates, filtered,
                  queryFailed, scanFailed, pwe, batchStart, calls, overtaken, results,
                  topMatches, personaCall, persona, saved, response, deviations >>

\* scoreWithRules is called once more for the same profile and property, with
\* or without an enrichment row, and returns
ScoreAgain ==
  /\ pc = "again"
  /\ \E enrichment \in {JNull, PropertyEnrichment[1]} :
       /\ pwe' = <<[property |-> pwe[1].property, enrichment |-> enrichment]>>
       /\ scoreLog' = scoreLog \cup
                        {[property |-> pwe[1].property, reply |-> "none",
                          value |-> scoreWithRules(profile, RuleRow(pwe[1].property),
                                                   enrichment)]}
  /\ pc' = "done"
  /\ UNCHANGED << claimVars, variant, client, answers, profile, candidates, filtered,
                  queryFailed, scanFailed, batchStart, calls, overtaken, results,
                  topMatches, personaCall, persona, saved, response, deviations >>

NextRules == ScoreByRules \/ ScoreAgain

SpecRules == InitRules /\ [][NextRules]_vars

\* ------------------------------------------------------------------------
\* Properties of the rule-based scorer

\* the highlights and the concerns of a score, as sets
HighlightsOf(v) == Range(v.highlights.items)

ConcernsOf(v) == Range(v.concerns.items)

\* the buyer has pets, the listing is pet-friendly, 12 minutes from the
\* centre, walkability 9
PetCommuteWalk(p) ==
  /\ profile.pets # JStr(<<"No", " ", "pets">>)
  /\ p.pet_friendly = JBool(TRUE)
  /\ p.commute_city_center = JNum(12)
  /\ p.walkability = JNum(9)

\* the outdoor step and the schools step add nothing
NoGardenNoSchools(p) ==
  /\ ~(profile.outdoor_space = JStr(<<"Big", " ", "garden">>) /\ p.features # JNull)
  /\ p.schools_quality # JStr(<<"excellent">>)

\* the ceiling budgetMap of scoreWithRules gives the labels of RuleAnswers
CeilingOfLabel ==
  IF profile.budget_range = JStr(Budget200to400Hyphen) THEN 400000
  ELSE IF profile.budget_range = JStr(<<"GBP800K+">>) THEN 1200000
  ELSE 500000

\* what the budget step adds for a price
BudgetPoints(p) ==
  IF p.price.n <= CeilingOfLabel THEN 15
  ELSE IF p.price.n * 10 <= CeilingOfLabel * 11 THEN 5
  ELSE 0 - 10

\* C13 as stated: pets, pet-friendly, commute 12 and walkability 9 score 78,
\* and the three highlights are the commute, the walkability and the
\* pet-friendly one.
C13_ScoreIs78 ==
  \A e \in scoreLog :
    PetCommuteWalk(RuleRow(e.property)) =>
      /\ e.value.score = JNum(78)
      /\ {"12 min commute", "Very walkable area", "Pet-friendly"} \subseteq HighlightsOf(e.value)

\* C13 amended: the budget step always applies, so with no outdoor and no
\* schools adjustment the score is 78 plus the budget points (93, 83 or 68);
\* the commute and walkability highlights are there, and the pet-friendly
\* one unless "Well within budget" came first and took the third place.
C13_ScoreIs78PlusBudget ==
  \A e \in scoreLog :
    LET p == RuleRow(e.property)
    IN (PetCommuteWalk(p) /\ NoGardenNoSchools(p)) =>
         /\ e.value.score = JNum(78 + BudgetPoints(p))
         /\ e.value.score.n \in {93, 83, 68}
         /\ {"12 min commute", "Very walkable area"} \subseteq HighlightsOf(e.value)
         /\ IF p.price.n * 100 <= CeilingOfLabel * 85
            THEN e.value.highlights.items =
                   <<"Well within budget", "12 min commute", "Very walkable area">>
            ELSE e.value.highlights.items =
                   <<"12 min commute", "Very walkable area", "Pet-friendly">>

\* the scenario scored for a price above 1.1 times the ceiling
C13_Witness ==
  \E e \in scoreLog :
    /\ PetCommuteWalk(RuleRow(e.property))
    /\ NoGardenNoSchools(RuleRow(e.property))
    /\ e.value.score = JNum(68)

\* no step but the budget step changes the score or pushes a highlight
BudgetStepAlone(p) ==
  /\ p.commute_city_center \in {JNull, JNum(0), JNum(45)}
  /\ p.walkability = JNum(5)
  /\ ~(profile.pets # JStr(<<"No", " ", "pets">>) /\ p.pet_friendly = JBool(TRUE))
  /\ NoGardenNoSchools(p)

\* C14: the budget step adds 15 for a price within the ceiling of the label
\* (500,000 for a label not in the table), with "Well within budget" when
\* within 0.85 of it; 5 and "Slightly above budget" within 1.1 of it; else
\* takes 10 off with "Above budget". The hyphen label for 200K-400K and a
\* price of 600000, nothing else applying, score 40.
C14_BudgetAdjustment ==
  \A e \in scoreLog :
    LET p == RuleRow(e.property)
        price == p.price.n
    IN BudgetStepAlone(p) =>
         /\ e.value.score = JNum(50 + BudgetPoints(p))
         /\ ("Well within budget" \in HighlightsOf(e.value)) <=> (price * 100 <= CeilingOfLabel * 85)
         /\ ("Slightly above budget" \in ConcernsOf(e.value))
              <=> (price > CeilingOfLabel /\ price * 10 <= CeilingOfLabel * 11)
         /\ ("Above budget" \in ConcernsOf(e.value)) <=> (price * 10 > CeilingOfLabel * 11)
         /\ (profile.budget_range = JStr(Budget200to400Hyphen) /\ price = 600000) =>
              (e.value.score = JNum(40) /\ "Above budget" \in ConcernsOf(e.value))

\* the hyphen label, a price of 600000 and no other step, scored
C14_Witness ==
  \E e \in scoreLog :
    /\ BudgetStepAlone(RuleRow(e.property))
    /\ profile.budget_range = JStr(Budget200to400Hyphen)
    /\ RuleRow(e.property).price = JNum(600000)
    /\ e.value.score = JNum(40)

\* what a step pushes when its condition holds
PushIf(condition, text) == IF condition THEN <<text>> ELSE <<>>

\* the highlights in generation order: budget, commute, walkability, pets,
\* outdoor space, schools
HighlightsInOrder(p) ==
  PushIf(p.price.n * 100 <= CeilingOfLabel * 85, "Well within budget")
    \o PushIf(p.commute_city_center = JNum(12), "12 min commute")
    \o PushIf(p.walkability = JNum(9), "Very walkable area")
    \o PushIf(profile.pets # JStr(<<"No", " ", "pets">>) /\ p.pet_friendly = JBool(TRUE),
              "Pet-friendly")
    \o PushIf(profile.outdoor_space = JStr(<<"Big", " ", "garden">>) /\ p.features # JNull,
              "Has garden")
    \o PushIf(p.schools_quality = JStr(<<"excellent">>), "Excellent schools")

\* the concerns in generation order: budget, pets
ConcernsInOrder(p) ==
  PushIf(p.price.n > CeilingOfLabel /\ p.price.n * 10 <= CeilingOfLabel * 11,
         "Slightly above budget")
    \o PushIf(p.price.n * 10 > CeilingOfLabel * 11, "Above budget")
    \o PushIf(profile.pets # JStr(<<"No", " ", "pets">>) /\ p.pet_friendly # JBool(TRUE),
              "Not pet-friendly")

\* C15: a rule-based score has at most 3 highlights and at most 2 concerns:
\* the first 3 and the first 2 in generation order.
C15_FirstThreeAndTwo ==
  \A e \in scoreLog :
    LET p == RuleRow(e.property)
        h == e.value.highlights.items
        c == e.value.concerns.items
    IN /\ Len(h) <= 3
       /\ Len(c) <= 2
       /\ h = SubSeq(HighlightsInOrder(p), 1, Min(3, Len(HighlightsInOrder(p))))
       /\ c = SubSeq(ConcernsInOrder(p), 1, Min(2, Len(ConcernsInOrder(p))))

\* a score for which all six steps pushed a highlight, three of them cut off
C15_Witness ==
  \E e \in scoreLog :
    /\ Len(HighlightsInOrder(RuleRow(e.property))) = 6
    /\ Len(ConcernsInOrder(RuleRow(e.property))) = 0
    /\ Len(e.value.highlights.items) = 3

\* ------------------------------------------------------------------------
\* Properties of the ranking

\* where a candidate stood in the list handed to scoreProperties
PlaceOf(id) == CHOOSE k \in DOMAIN pwe : pwe[k].property = id

C17_RanksContiguous ==
  (response.kind = "ranked" /\ response.matches # <<>>) =>
    /\ \A k \in DOMAIN response.matches : response.matches[k].rank = k
    /\ {response.matches[k].rank : k \in DOMAIN response.matches} = 1..Len(response.matches)
    /\ Len(response.matches) = Len(topMatches)

\* a response with TOP_N matches, fewer than there were candidates
C17_Witness ==
  /\ response.kind = "ranked"
  /\ Len(response.matches) = TOP_N
  /\ Len(candidates) > TOP_N

\* ------------------------------------------------------------------------
\* Properties of the persona and of the audit record

\* {emoji, title, description}: an object with a title
IsPersona(v) == v.t = "object" /\ "title" \in DOMAIN v

\* C18: generatePersona always returns a persona and never fails the
\* request; with the service disabled the persona is one of the canned ones.
C18_AlwaysPersona ==
  personaCall = "done" =>
    /\ IsPersona(persona)
    /\ ~client => persona \in Range(CannedPersonas)
    /\ response.kind # "failed"

\* C19: however the insert of saveSearch ended, the response is the ranked
\* response with status 200, the same persona, matches and meta.
C19_SaveFailureSilent ==
  saved # "none" =>
    /\ response.status = 200
    /\ response = RankedResponse(persona, topMatches, Len(candidates), client)

\* a request answered after the insert threw
C19_Witness == saved = "threw" /\ pc = "done" /\ response.kind = "ranked"

\* ------------------------------------------------------------------------
\* Properties of buildProfile

\* the tag-valued fields of a profile
TagFields == {"vibe", "dealbreakers", "priorities", "lifestyle"}

\* C20: buildProfile gives each tag-valued field a sequence: empty when the
\* answer is absent, the answer alone when the answer is a scalar.
C20_TagsLifted ==
  profile.t = "object" =>
    \A f \in TagFields :
      /\ profile[f].t = "array"
      /\ answers[f].t = "undefined" => profile[f].items = <<>>
      /\ answers[f].t = "string" => profile[f].items = <<answers[f]>>

\* ------------------------------------------------------------------------
\* getCandidates on its own: the filter query runs against a store whose
\* listings differ in price and bedrooms, for profiles whose labels are and
\* are not in the tables of getCandidates.

FilterPrices ==
  << JNull, JNum(0), JNum(139999), JNum(140000), JNum(520000), JNum(520001),
     JNum(560000), JNum(PRICE_OPEN) >>

FilterBeds == << 0, 1, 2, 3 >>

\* one listing per combination of price and bedrooms
FilterListingIds == 1..(Len(FilterPrices) * Len(FilterBeds))

FilterRow(id) ==
  LET k1 == id - 1
      k2 == k1 \div Len(FilterPrices)
  IN Listing(id, "active", Nth(FilterPrices, k1), Nth(FilterBeds, k2), Leeds, JNull,
             JNum(12), JNum(7), JBool(TRUE), JNull, JNull)

\* the rows of table properties of this store
FilterRows == [id \in FilterListingIds |-> FilterRow(id)]

\* "£200K—£400K", the dash an em dash
Budget200to400EmDash == <<"GBP200K", "EMDASH", "GBP400K">>

\* a family-size label bedsMap does not hold
FamilyOfFive == <<"Family", " ", "of", " ", "five">>

\* the answers the profiles are built from
FilterAnswers ==
  { Answers(location, JUndef, budget, family, JUndef, JUndef, JUndef) :
      location \in {JStr(Leeds), JStr(ToLowerCase(Leeds)), JUndef},
      budget \in {JStr(Budget200to400), JStr(Budget200to400Hyphen),
                  JStr(Budget200to400EmDash), JStr(<<"GBP800K+">>), JStr(<<"Flexible">>),
                  JUndef},
      family \in {JStr(<<"Couple">>), JStr(<<"Housemates">>), JStr(FamilyOfFive),
                  JUndef} }

InitFilter ==
  /\ variant \in {"api", "bundled"}
  /\ client = FALSE
  /\ answers \in FilterAnswers
  /\ profile = buildProfile(answers)
  /\ pc = "filter"
  /\ candidates = <<>>
  /\ filtered = FALSE
  /\ queryFailed = FALSE
  /\ scanFailed = FALSE
  /\ pwe = <<>>
  /\ batchStart = 0
  /\ calls = <<>>
  /\ overtaken = FALSE
  /\ results = <<>>
  /\ topMatches = <<>>
  /\ personaCall = "idle"
  /\ persona = JUndef
  /\ saved = "none"
  /\ response = NoResponse
  /\ deviations = 0
  /\ scoreLog = {}
  /\ NoClaims

\* the filter query of getCandidates comes back with its rows, and the handler
\* goes on from them
QueryStore ==
  /\ pc = "filter"
  /\ queryFailed' = FALSE
  /\ AfterCandidates(FilterQuery(variant, profile, FilterRows))
  /\ UNCHANGED << claimVars, variant, client, answers, profile, scanFailed, pwe, batchStart,
                  calls, overtaken, results, topMatches, personaCall, persona, saved,
                  deviations, scoreLog >>

NextFilter == QueryStore

SpecFilter == InitFilter /\ [][NextFilter]_vars

\* ------------------------------------------------------------------------
\* Properties of the candidate filter

\* the band the specification gives a budget label: the ceiling 0 stands for
\* no ceiling
BandOfLabel ==
  IF profile.budget_range \in {JStr(Budget200to400), JStr(Budget200to400Hyphen),
                               JStr(Budget200to400EmDash)}
  THEN <<140000, 520000>>
  ELSE IF profile.budget_range = JStr(<<"GBP800K+">>) THEN <<560000, 0>>
  ELSE <<0, 0>>

\* a price lies in the band of the profile's label
InBand(price) ==
  /\ price.t = "number"
  /\ price.n >= BandOfLabel[1]
  /\ BandOfLabel[2] # 0 => price.n <= BandOfLabel[2]

\* the bedrooms the specification asks of a listing for a family-size label
BedsOfLabel == IF profile.family_size = JStr(<<"Housemates">>) THEN 2 ELSE 1

UnknownBudget == profile.budget_range \in {JStr(<<"Flexible">>), JUndef}

UnknownFamily == profile.family_size \in {JStr(FamilyOfFive), JUndef}

KnownBudget == BudgetBandMap(NormBudget(profile)) # <<>>

\* C25: after a successful filter query for a profile whose budget label is
\* in the table, every candidate is priced inside the buffered band of the
\* label, 140,000 to 520,000 for 200K to 400K, and a listing priced inside
\* the band with bedrooms enough is a candidate, so one priced 1.3 times the
\* ceiling reaches the scorer.
C25_CandidatesInBand ==
  (filtered /\ ~queryFailed /\ KnownBudget) =>
    /\ BandOfLabel # <<0, 0>>
    /\ \A id \in Range(candidates) : InBand(FilterRow(id).price)
    /\ \A id \in FilterListingIds :
         (InBand(FilterRow(id).price) /\ FilterRow(id).beds.n >= BedsOfLabel) =>
           id \in Range(candidates)

\* a listing priced 520,000 is a candidate for the label 200K to 400K, and
\* the handler goes on to score it
C25_Witness ==
  /\ filtered
  /\ profile.budget_range = JStr(Budget200to400)
  /\ pc = "enrich"
  /\ \E id \in Range(candidates) : FilterRow(id).price = JNum(520000)

\* ------------------------------------------------------------------------
\* Properties of candidates without enrichment

\* table property_enrichment holds no row for a property
NoEnrichmentRow(id) == \A k \in DOMAIN PropertyEnrichment : PropertyEnrichment[k].property_id # id

\* C22: a candidate without an enrichment row is paired with null, its scoring
\* call never rejects because of that, the rule-based path (taken without a
\* client or after a failed reply) and a reply in the agreed format both give
\* it a score result, and its entry in the response carries enrichment null.
C22_MissingEnrichment ==
  /\ \A k \in DOMAIN pwe :
       NoEnrichmentRow(pwe[k].property) => pwe[k].enrichment = JNull
  /\ \A e \in scoreLog :
       (NoEnrichmentRow(e.property) /\ (e.reply \in {"none", "plain"} \/ ReplyFailed(e))) =>
         IsScoreResult(e.value)
  /\ \A e \in scoreLog :
       (NoEnrichmentRow(e.property) /\ (e.reply = "none" \/ ReplyFailed(e))) =>
         e.value = scoreWithRules(profile, Row(e.property), JNull)
  /\ \A j \in DOMAIN calls : calls[j].state # "rejected"
  /\ response.kind = "ranked" =>
       \A k \in DOMAIN response.matches :
         NoEnrichmentRow(response.matches[k].property.id) =>
           response.matches[k].enrichment = JNull

\* a ranked response with a match for property 2, which has no enrichment
\* row, scored by rules after the service's reply did not parse
C22_Witness ==
  /\ response.kind = "ranked"
  /\ client
  /\ \E k \in DOMAIN response.matches :
       /\ response.matches[k].property.id = 2
       /\ response.matches[k].enrichment = JNull
  /\ \E e \in scoreLog : e.property = 2 /\ e.reply = "prose"

\* ------------------------------------------------------------------------
\* Further properties of the rule-based scorer

CommutePoints(c) == IF c <= 15 THEN 15 ELSE IF c <= 25 THEN 10 ELSE IF c <= 40 THEN 5 ELSE 0

\* no step but the budget step and the commute step changes the score or
\* pushes a highlight
BudgetAndCommuteAlone(p) ==
  /\ p.walkability = JNum(5)
  /\ ~(profile.pets # JStr(<<"No", " ", "pets">>) /\ p.pet_friendly = JBool(TRUE))
  /\ NoGardenNoSchools(p)

\* C24: for a commute of c minutes, c >= 0 and c = 0 included, the commute
\* step adds 15 and the highlight "<c> min commute" when c <= 15, 10 when
\* c <= 25, 5 when c <= 40, and nothing above 40.
C24_CommuteAdjustment ==
  \A e \in scoreLog :
    LET p == RuleRow(e.property)
        c == p.commute_city_center
    IN (BudgetAndCommuteAlone(p) /\ c.t = "number") =>
         /\ e.value.score = JNum(50 + BudgetPoints(p) + CommutePoints(c.n))
         /\ (ToString(c.n) \o " min commute" \in HighlightsOf(e.value)) <=> c.n <= 15

\* C27: every score of the rule-based scorer lies in 40..100: the sum before
\* the clamp is at least 50 - 10 and at most 103, and the clamp cuts it to 100.
C27_RuleScoreRange ==
  \A e \in scoreLog :
    LET raw == RawRuleScore(profile, RuleRow(e.property))
    IN /\ e.value.score.t = "number"
       /\ e.value.score.n \in 40..100
       /\ raw \in 40..103
       /\ e.value.score.n = IF raw > 100 THEN 100 ELSE raw

\* every step adds its most, 103 in all, and the score returned is 100
C27_Witness ==
  \E e \in scoreLog :
    LET p == RuleRow(e.property)
    IN /\ PetCommuteWalk(p)
       /\ ~NoGardenNoSchools(p)
       /\ RawRuleScore(profile, p) = 103
       /\ e.value.score = JNum(100)

\* the profile with its budget label spelled as getCandidates normalises it
NormalisedProfile == [profile EXCEPT !.budget_range = JStr(NormBudget(profile))]

\* C28: a budget label getCandidates resolves to a band of its table, after
\* rewriting en dash, em dash and spaced hyphen, is resolved by scoreWithRules
\* to the ceiling of that label and not to the default 500,000: the score is
\* the score of the label in its normalised spelling.
C28_LabelsAgree ==
  \A e \in scoreLog :
    KnownBudget =>
      /\ MaxBudget(profile) = BudgetCeilingMap(NormBudget(profile))
      /\ e.value = scoreWithRules(NormalisedProfile, RuleRow(e.property), JNull)

\* ------------------------------------------------------------------------
\* Properties of the pairing of property, enrichment and score

\* C29: through pairing, batching, sorting and cutting to five, every entry
\* collected, ranked or sent holds null or the enrichment row of its own
\* property, and the score its own scoring call settled with.
C29_OwnEnrichmentAndScore ==
  /\ \A k \in DOMAIN pwe :
       \/ pwe[k].enrichment = JNull
       \/ /\ pwe[k].enrichment \in Range(PropertyEnrichment)
          /\ pwe[k].enrichment.property_id = pwe[k].property
  /\ \A list \in {results, topMatches} :
       \A k \in DOMAIN list :
         /\ list[k].enrichment = PairedEnrichment(list[k].property)
         /\ \E e \in scoreLog : e.property = list[k].property /\ e.value = list[k].score
  /\ response.kind = "ranked" =>
       \A k \in DOMAIN response.matches :
         LET m == response.matches[k]
         IN /\ \/ m.enrichment = JNull
               \/ /\ m.enrichment \in Range(PropertyEnrichment)
                  /\ m.enrichment.property_id = m.property.id
            /\ m.enrichment = PairedEnrichment(m.property.id)
            /\ \E e \in scoreLog :
                 /\ e.property = m.property.id
                 /\ m.score = Or(OptScore(e.value), JNum(0))
                 /\ m.highlights = Or(OptField(e.value, "highlights"), JArr(<<>>))

\* a ranked response from the reasoning service's scores, with the enrichment
\* row of property 3 on the match for property 3 and null on a match ranked
\* above it
C29_Witness ==
  /\ response.kind = "ranked"
  /\ client
  /\ \E e \in scoreLog : e.reply = "plain"
  /\ \E k, l \in DOMAIN response.matches :
       /\ response.matches[k].property.id = 3
       /\ response.matches[k].enrichment = PropertyEnrichment[2]
       /\ response.matches[l].enrichment = JNull
       /\ l < k

\* ------------------------------------------------------------------------
\* The match pipeline when every external call completes

\* the steps the handler itself takes, run by the event loop as soon as what
\* they wait for is there
HandlerSteps ==
  MatchRequest \/ StartBatch \/ CollectBatch \/ Rank \/ StartPersona \/ AwaitPersona

\* the completions of the calls to the listing store, the reasoning service,
\* the persona service and the audit write
ExternalReplies ==
  FilterReply \/ ScanReply \/ EnrichReply \/ ServiceReply \/ PersonaReply \/ SaveReply

\* every external call completes in the end, with success or with failure,
\* and the handler goes on whenever it can
LiveSpec == Spec /\ WF_vars(HandlerSteps) /\ WF_vars(ExternalReplies)

\* a response has been sent
Responded == response.kind \in {"empty", "ranked", "failed"}

\* a scoring call is waiting for the reasoning service
ScoringCallPending == \E j \in DOMAIN calls : calls[j].state = "pending"

\* C26: when every external call completes, the request is answered in the
\* end, with the empty, the ranked or the failure response; a response once
\* sent is the only one; and as long as a scoring call has not completed no
\* response is sent, so a call that never completes leaves the request
\* unanswered for good.
C26_EventuallyOneResponse ==
  /\ <>(pc = "done" /\ Responded)
  /\ [][Responded => response' = response]_vars
  /\ [](pc = "done" <=> Responded)
  /\ [](ScoringCallPending => ~Responded)

\* a request answered with the ranked response after a scoring call ended in
\* a service error
C26_Witness ==
  /\ pc = "done"
  /\ response.kind = "ranked"
  /\ \E e \in scoreLog : e.reply = "error"

\* ------------------------------------------------------------------------
\* Listing claims: app.post('/api/agents/claims') of the bundled server. Each
\* agent sends one claim for the same listing, which no agent holds; the
\* requests run side by side, each from one await to the next.

\* the listing the claims are for
ClaimedProperty == 1

InitClaims ==
  /\ variant = "bundled"
  /\ client = FALSE
  /\ answers = JUndef
  /\ pc = "idle"
  /\ Idle
  /\ listingClaims = <<>>
  /\ propertyAgentId = NoAgent
  /\ claimPc = [a \in Agents |-> "existing"]
  /\ claim = [a \in Agents |-> JNull]
  /\ claimResponse = [a \in Agents |-> [status |-> 0]]
  /\ notifications = {}

\* res.status(code).json(...) of the request of agent a
Respond(a, code, status) ==
  /\ claimResponse' = [claimResponse EXCEPT ![a] = [status |-> code, claim |-> status]]
  /\ claimPc' = [claimPc EXCEPT ![a] = "done"]

\* the rows of listing_claims for the listing and agent a
ClaimsOf(a) ==
  {k \in DOMAIN listingClaims :
     listingClaims[k].property_id = ClaimedProperty /\ listingClaims[k].agent_id = a}

\* the select of the agent's existing claim comes back; .single() gives data
\* only for exactly one row
ExistingReply(a) ==
  /\ claimPc[a] = "existing"
  /\ \E failed \in BOOLEAN :
       IF ~failed /\ Cardinality(ClaimsOf(a)) = 1
       THEN Respond(a, 409, "none")
       ELSE /\ claimPc' = [claimPc EXCEPT ![a] = "insert"]
            /\ UNCHANGED claimResponse
  /\ UNCHANGED << matchVars, listingClaims, propertyAgentId, claim, notifications >>

\* the insert of the claim with status 'pending' comes back; an error is thrown
\* on to the catch clause
InsertReply(a) ==
  /\ claimPc[a] = "insert"
  /\ \E failed \in BOOLEAN :
       IF failed
       THEN /\ Respond(a, 500, "none")
            /\ UNCHANGED << listingClaims, claim >>
       ELSE /\ listingClaims' =
                 Append(listingClaims,
                        [id |-> Len(listingClaims) + 1, property_id |-> ClaimedProperty,
                         agent_id |-> a, status |-> "pending"])
            /\ claim' = [claim EXCEPT ![a] = [id |-> Len(listingClaims) + 1,
                                               status |-> "pending"]]
            /\ claimPc' = [claimPc EXCEPT ![a] = "property"]
            /\ UNCHANGED claimResponse
  /\ UNCHANGED << matchVars, propertyAgentId, notifications >>

\* the select of the listing's agent_id comes back: the claim is approved when
\* the listing was read and holds no agent, and answered as it is otherwise
PropertyReply(a) ==
  /\ claimPc[a] = "property"
  /\ \E failed \in BOOLEAN :
       IF ~failed /\ propertyAgentId = NoAgent
       THEN /\ claimPc' = [claimPc EXCEPT ![a] = "approve"]
            /\ UNCHANGED claimResponse
       ELSE Respond(a, 200, claim[a].status)
  /\ UNCHANGED << matchVars, listingClaims, propertyAgentId, claim, notifications >>

\* the update of the claim to 'approved' comes back; its outcome is not looked at
ApproveReply(a) ==
  /\ claimPc[a] = "approve"
  /\ \E failed \in BOOLEAN :
       listingClaims' = IF failed THEN listingClaims
                        ELSE [k \in DOMAIN listingClaims |->
                                IF listingClaims[k].id = claim[a].id
                                THEN [listingClaims[k] EXCEPT !.status = "approved"]
                                ELSE listingClaims[k]]
  /\ claimPc' = [claimPc EXCEPT ![a] = "assign"]
  /\ UNCHANGED << matchVars, propertyAgentId, claim, claimResponse, notifications >>

\* the update of the listing's agent_id comes back; its outcome is not looked
\* at; claim.status = 'approved'
AssignReply(a) ==
  /\ claimPc[a] = "assign"
  /\ \E failed \in BOOLEAN :
       propertyAgentId' = IF failed THEN propertyAgentId ELSE a
  /\ claim' = [claim EXCEPT ![a].status = "approved"]
  /\ claimPc' = [claimPc EXCEPT ![a] = "notify"]
  /\ UNCHANGED << matchVars, listingClaims, claimResponse, notifications >>

\* the insert of the notification comes back; res.json({ claim })
NotifyReply(a) ==
  /\ claimPc[a] = "notify"
  /\ \E failed \in BOOLEAN :
       notifications' = IF failed THEN notifications ELSE notifications \cup {a}
  /\ Respond(a, 200, claim[a].status)
  /\ UNCHANGED << matchVars, listingClaims, propertyAgentId, claim >>

NextClaims ==
  \E a \in Agents :
    \/ ExistingReply(a)
    \/ InsertReply(a)
    \/ PropertyReply(a)
    \/ ApproveReply(a)
    \/ AssignReply(a)
    \/ NotifyReply(a)

SpecClaims == InitClaims /\ [][NextClaims]_vars

\* ------------------------------------------------------------------------
\* Properties of the listing claims

\* the claims of the listing with status 'approved'
ApprovedClaims ==
  {k \in DOMAIN listingClaims :
     listingClaims[k].property_id = ClaimedProperty /\ listingClaims[k].status = "approved"}

\* every claim request has been answered
AllClaimsAnswered == \A a \in Agents : claimPc[a] = "done"

\* C30: however the claim requests of different agents for the same listing
\* interleave, at the end at most one claim of the listing is approved, and the
\* listing's agent_id is the agent of that claim.
C30_OneApprovedClaim ==
  AllClaimsAnswered =>
    /\ Cardinality(ApprovedClaims) <= 1
    /\ \A k \in ApprovedClaims : propertyAgentId = listingClaims[k].agent_id

====
